---- MODULE Spec2Model ----
(***************************************************************************)
(* Halloween Radio to Spotify: the per-feed connection state machine of    *)
(* RadioMonitor, its metadata change detector, the searchAndAddTrack       *)
(* pipeline of SpotifyService and the SQLite ledger of DatabaseService.    *)
(*                                                                         *)
(* Text is modelled as a sequence of one-character strings, so that        *)
(* trimming, searching and splitting are computed, not assumed.            *)
(* Similarity scores are fixed-point: 1000 stands for 1.0.                 *)
(***************************************************************************)
EXTENDS Integers, Sequences, FiniteSets, TLC

VARIABLES
    isMonitoring,   \* RadioMonitor.isMonitoring
    startPc,        \* position of startMonitoring: 0 not called, i awaiting feed i, NumFeeds+1 returned
    stopCalled,     \* stopMonitoring has run
    stopPc,         \* position of HalloweenRadioApp.stop: 0 not called, 1 store closed, 2 returned
    stations,       \* RadioMonitor.stations: feed -> "absent" | "connected" | "disconnected"
    curResp,        \* state of the response object held by the feed's stations entry
    oldResp,        \* responses no longer held by a stations entry, per feed and state
    timers,         \* pending setTimeout callbacks of handleStationDisconnect, per feed
    reconn,         \* timer callbacks awaiting connectToStation, per feed
    doubles,        \* environment: how many responses have emitted a second event
    lastMetadata,   \* RadioMonitor.lastMetadata: feed -> parsed track | None
    frames,         \* history: the valid announcements each feed's handler has seen
    inv,            \* the handleMetadata/searchAndAddTrack invocations started so far
    matched,        \* relation matched_tracks
    unmatched,      \* relation unmatched_tracks
    stats,          \* relation stats
    appended,       \* the remote collections: the append calls that succeeded, as [call, playlist, id]
    playlistRows,   \* relation playlists
    playlistCalls   \* history: the calls of updatePlaylistInfo, with the time of each

connVars == <<isMonitoring, startPc, stopCalled, stopPc, stations, curResp, oldResp,
              timers, reconn, doubles>>
pipeVars == <<lastMetadata, frames, inv, matched, unmatched, stats, appended>>
setupVars == <<playlistRows, playlistCalls>>
vars == <<isMonitoring, startPc, stopCalled, stopPc, stations, curResp, oldResp,
          timers, reconn, doubles,
          lastMetadata, frames, inv, matched, unmatched, stats, appended,
          playlistRows, playlistCalls>>

\* null / undefined where an object is expected, an id, a row id
None == [none |-> TRUE]
NoId == "none"
NoResult == -1
NullResult == 0

----------------------------------------------------------------------------
(* Bounds of the model.                                                    *)

NumFeeds == 2
MaxDouble == 1
MaxFrames == 2

----------------------------------------------------------------------------
(* Feeds.                                                                  *)

stationUrls ==
    << <<"m","a","i","n">>, <<"m","o","v","i","e","s">>,
       <<"o","l","d","i","e","s">>, <<"k","i","d","s">> >>

FeedIdx == 1..(IF NumFeeds < Len(stationUrls) THEN NumFeeds ELSE Len(stationUrls))

Feeds == {stationUrls[i] : i \in FeedIdx}

----------------------------------------------------------------------------
(* Text: the String methods the code uses.                                 *)

LowerChars ==
    <<"a","b","c","d","e","f","g","h","i","j","k","l","m",
      "n","o","p","q","r","s","t","u","v","w","x","y","z">>

UpperChars ==
    <<"A","B","C","D","E","F","G","H","I","J","K","L","M",
      "N","O","P","Q","R","S","T","U","V","W","X","Y","Z">>

toUpperCaseChar(c) ==
    IF \E i \in 1..26 : LowerChars[i] = c
    THEN UpperChars[CHOOSE i \in 1..26 : LowerChars[i] = c]
    ELSE c

toLowerCaseChar(c) ==
    IF \E i \in 1..26 : UpperChars[i] = c
    THEN LowerChars[CHOOSE i \in 1..26 : UpperChars[i] = c]
    ELSE c

toLowerCase(s) == [i \in 1..Len(s) |-> toLowerCaseChar(s[i])]

StartsAt(s, sep, i) ==
    /\ i + Len(sep) - 1 <= Len(s)
    /\ \A k \in 1..Len(sep) : s[i + k - 1] = sep[k]

includes(s, sep) == \E i \in 1..(Len(s) + 1) : StartsAt(s, sep, i)

indexOf(s, sep) ==
    CHOOSE i \in 1..(Len(s) + 1) :
        StartsAt(s, sep, i) /\ \A j \in 1..(i - 1) : ~StartsAt(s, sep, j)

RECURSIVE split(_, _)
split(s, sep) ==
    IF ~includes(s, sep)
    THEN <<s>>
    ELSE LET i == indexOf(s, sep)
         IN  <<SubSeq(s, 1, i - 1)>> \o split(SubSeq(s, i + Len(sep), Len(s)), sep)

RECURSIVE join(_, _)
join(parts, sep) ==
    IF Len(parts) = 0 THEN <<>>
    ELSE IF Len(parts) = 1 THEN parts[1]
    ELSE parts[1] \o sep \o join(Tail(parts), sep)

RECURSIVE trimStart(_)
trimStart(s) ==
    IF Len(s) > 0 /\ s[1] = " " THEN trimStart(Tail(s)) ELSE s

RECURSIVE trimEnd(_)
trimEnd(s) ==
    IF Len(s) > 0 /\ s[Len(s)] = " " THEN trimEnd(SubSeq(s, 1, Len(s) - 1)) ELSE s

trim(s) == trimEnd(trimStart(s))

capitalizeStationName(stationName) ==
    <<toUpperCaseChar(stationName[1])>> \o Tail(stationName)

----------------------------------------------------------------------------
(* RadioMonitor.parseStreamTitle.                                          *)

EnDash == "u2013"
EmDash == "u2014"

separatorsByFirst ==
    << <<" ", "b", "y", " ">>, <<" ", "-", " ">>, <<" ", EnDash, " ">>,
       <<" ", EmDash, " ">>, <<":", " ">> >>

separators ==
    << <<" ", "-", " ">>, <<" ", EnDash, " ">>, <<" ", EmDash, " ">>,
       <<":", " ">>, <<" ", "b", "y", " ">> >>

DashSeparator == <<" ", "-", " ">>

BySeparator == <<" ", "b", "y", " ">>

\* (UnknownArtist left empty.)
NoArtist == <<>>

UnknownArtist ==
    <<"U","n","k","n","o","w","n"," ","A","r","t","i","s","t">>

RECURSIVE parseFrom(_, _)
parseFrom(cleanTitle, k) ==
    IF k > Len(separators)
    THEN [artist |-> UnknownArtist, title |-> cleanTitle, original |-> cleanTitle]
    ELSE LET separator == separators[k]
             parts == split(cleanTitle, separator)
         IN  IF includes(cleanTitle, separator) /\ Len(parts) >= 2
             THEN IF separator = BySeparator
                  THEN [title |-> trim(parts[1]), artist |-> trim(parts[2]),
                        original |-> cleanTitle]
                  ELSE [artist |-> trim(parts[1]),
                        title |-> trim(join(Tail(parts), separator)),
                        original |-> cleanTitle]
             ELSE parseFrom(cleanTitle, k + 1)

parseStreamTitle(streamTitle) == parseFrom(trim(streamTitle), 1)

----------------------------------------------------------------------------
(* The state after construction (RadioMonitor, SpotifyService and the      *)
(* DatabaseService it owns; the store starts empty and every feed has a    *)
(* collection bound by setupPlaylists).                                    *)

NoResponses == [live |-> 0, errored |-> 0, ended |-> 0]

Init ==
    /\ isMonitoring = FALSE
    /\ startPc = 0
    /\ stopCalled = FALSE
    /\ stopPc = 0
    /\ stations = [f \in Feeds |-> "absent"]
    /\ curResp = [f \in Feeds |-> "none"]
    /\ oldResp = [f \in Feeds |-> NoResponses]
    /\ timers = [f \in Feeds |-> 0]
    /\ reconn = [f \in Feeds |-> 0]
    /\ doubles = 0
    /\ lastMetadata = [f \in Feeds |-> None]
    /\ frames = [f \in Feeds |-> <<>>]
    /\ inv = <<>>
    /\ matched = {}
    /\ unmatched = {}
    /\ stats = {}
    /\ appended = {}
    /\ playlistRows = {}
    /\ playlistCalls = <<>>

----------------------------------------------------------------------------
(* RadioMonitor: connections.                                              *)

\* The response callback of connectToStation on a 200 answer: the stations
\* entry is replaced; the response it held stays open, unreferenced.
Retire(old, state) ==
    IF state \in {"live", "errored", "ended"}
    THEN [old EXCEPT ![state] = @ + 1]
    ELSE old

connectToStationOk(f) ==
    /\ stations' = [stations EXCEPT ![f] = "connected"]
    /\ oldResp' = [oldResp EXCEPT ![f] = Retire(@, curResp[f])]
    /\ curResp' = [curResp EXCEPT ![f] = "live"]

handleStationDisconnect(f) ==
    /\ stations' = [stations EXCEPT ![f] = IF @ = "absent" THEN @ ELSE "disconnected"]
    /\ timers' = [timers EXCEPT ![f] = @ + 1]

startMonitoring ==
    /\ startPc = 0
    /\ ~isMonitoring
    /\ isMonitoring' = TRUE
    /\ startPc' = 1
    /\ UNCHANGED <<stopCalled, stopPc, stations, curResp, oldResp, timers, reconn, doubles>>
    /\ UNCHANGED pipeVars
    /\ UNCHANGED setupVars

\* startMonitoring's loop: the awaited connectToStation of feed startPc resolves.
startConnectOk ==
    /\ startPc \in FeedIdx
    /\ connectToStationOk(stationUrls[startPc])
    /\ startPc' = startPc + 1
    /\ UNCHANGED <<isMonitoring, stopCalled, stopPc, timers, reconn, doubles>>
    /\ UNCHANGED pipeVars
    /\ UNCHANGED setupVars

\* (startConnectFail without the try/catch in the loop: the rejection leaves
\* startMonitoring by exception, the remaining feeds are not attempted.)
startConnectFailAborts ==
    /\ startPc \in FeedIdx
    /\ startPc' = NumFeeds + 2
    /\ UNCHANGED <<isMonitoring, stopCalled, stopPc, stations, curResp, oldResp, timers,
                   reconn, doubles>>
    /\ UNCHANGED pipeVars
    /\ UNCHANGED setupVars

\* (startConnectFail with the stations entry set before the status code is
\* looked at.)
startConnectFailRecorded ==
    /\ startPc \in FeedIdx
    /\ startPc' = startPc + 1
    /\ stations' = [stations EXCEPT ![stationUrls[startPc]] = "connected"]
    /\ UNCHANGED <<isMonitoring, stopCalled, stopPc, curResp, oldResp, timers,
                   reconn, doubles>>
    /\ UNCHANGED pipeVars
    /\ UNCHANGED setupVars

\* ... or rejects (non-200, request error, timeout): the catch only logs.
startConnectFail ==
    /\ startPc \in FeedIdx
    /\ startPc' = startPc + 1
    /\ UNCHANGED <<isMonitoring, stopCalled, stopPc, stations, curResp, oldResp, timers,
                   reconn, doubles>>
    /\ UNCHANGED pipeVars
    /\ UNCHANGED setupVars

\* A response emits an event for the first time. The environment settles here
\* whether this response will go on to emit the other event as well (at most
\* MaxDouble responses do); one that will not is closed.
FirstEvent(f, kind) ==
    \E next \in {"closed", kind} :
        /\ next = kind => doubles < MaxDouble
        /\ doubles' = IF next = kind THEN doubles + 1 ELSE doubles
        /\ \/ /\ curResp[f] = "live"
              /\ curResp' = [curResp EXCEPT ![f] = next]
              /\ UNCHANGED oldResp
           \/ /\ oldResp[f].live > 0
              /\ oldResp' = [oldResp EXCEPT ![f] = Retire([@ EXCEPT !.live = @ - 1], next)]
              /\ UNCHANGED curResp

\* A response that has emitted one event emits the other one.
SecondEvent(f, after) ==
    /\ UNCHANGED doubles
    /\ \/ /\ curResp[f] = after
          /\ curResp' = [curResp EXCEPT ![f] = "closed"]
          /\ UNCHANGED oldResp
       \/ /\ oldResp[f][after] > 0
          /\ oldResp' = [oldResp EXCEPT ![f][after] = @ - 1]
          /\ UNCHANGED curResp

onError(f) ==
    /\ FirstEvent(f, "errored") \/ SecondEvent(f, "ended")
    /\ handleStationDisconnect(f)
    /\ UNCHANGED <<isMonitoring, startPc, stopCalled, stopPc, reconn>>
    /\ UNCHANGED pipeVars
    /\ UNCHANGED setupVars

onEnd(f) ==
    /\ FirstEvent(f, "ended") \/ SecondEvent(f, "errored")
    /\ handleStationDisconnect(f)
    /\ UNCHANGED <<isMonitoring, startPc, stopCalled, stopPc, reconn>>
    /\ UNCHANGED pipeVars
    /\ UNCHANGED setupVars

\* The setTimeout callback of handleStationDisconnect starts running.
reconnectTimer(f) ==
    /\ timers[f] > 0
    /\ timers' = [timers EXCEPT ![f] = @ - 1]
    /\ reconn' = [reconn EXCEPT ![f] = IF isMonitoring THEN @ + 1 ELSE @]
    /\ UNCHANGED <<isMonitoring, startPc, stopCalled, stopPc, stations, curResp, oldResp,
                   doubles>>
    /\ UNCHANGED pipeVars
    /\ UNCHANGED setupVars

\* Its awaited connectToStation resolves ...
reconnectOk(f) ==
    /\ reconn[f] > 0
    /\ reconn' = [reconn EXCEPT ![f] = @ - 1]
    /\ connectToStationOk(f)
    /\ UNCHANGED <<isMonitoring, startPc, stopCalled, stopPc, timers, doubles>>
    /\ UNCHANGED pipeVars
    /\ UNCHANGED setupVars

\* (reconnectFail with the catch of startMonitoring: the failure is only logged.)
reconnectFailOnlyLogged(f) ==
    /\ reconn[f] > 0
    /\ reconn' = [reconn EXCEPT ![f] = @ - 1]
    /\ UNCHANGED <<isMonitoring, startPc, stopCalled, stopPc, stations, timers, curResp,
                   oldResp, doubles>>
    /\ UNCHANGED pipeVars
    /\ UNCHANGED setupVars

\* ... or rejects: "Try again later".
reconnectFail(f) ==
    /\ reconn[f] > 0
    /\ reconn' = [reconn EXCEPT ![f] = @ - 1]
    /\ handleStationDisconnect(f)
    /\ UNCHANGED <<isMonitoring, startPc, stopCalled, stopPc, curResp, oldResp, doubles>>
    /\ UNCHANGED pipeVars
    /\ UNCHANGED setupVars

stopMonitoring ==
    /\ isMonitoring
    /\ isMonitoring' = FALSE
    /\ stopCalled' = TRUE
    /\ curResp' = [f \in Feeds |-> "none"]
    /\ stations' = [f \in Feeds |-> "absent"]
    /\ lastMetadata' = [f \in Feeds |-> None]
    /\ UNCHANGED <<startPc, stopPc, oldResp, timers, reconn, doubles>>
    /\ UNCHANGED <<frames, inv, matched, unmatched, stats, appended>>
    /\ UNCHANGED setupVars

NextConn ==
    \/ startMonitoring
    \/ startConnectOk
    \/ startConnectFail
    \/ stopMonitoring
    \/ \E f \in Feeds : onError(f)
    \/ \E f \in Feeds : onEnd(f)
    \/ \E f \in Feeds : reconnectTimer(f)
    \/ \E f \in Feeds : reconnectOk(f)
    \/ \E f \in Feeds : reconnectFail(f)

SpecConn == Init /\ [][NextConn]_vars

\* The scheduling the code's timers give: a pending 30 s timer fires, and an
\* awaited connectToStation settles (a 200 answer, an error, or its 30 s timeout).
FairSpecConn ==
    /\ SpecConn
    /\ \A f \in Feeds : WF_vars(reconnectTimer(f))
    /\ \A f \in Feeds : WF_vars(reconnectOk(f) \/ reconnectFail(f))

\* ... and the connectToStation that startMonitoring's loop awaits settles too.
FairSpecStart ==
    /\ FairSpecConn
    /\ WF_vars(startMonitoring)
    /\ WF_vars(startConnectOk \/ startConnectFail)

----------------------------------------------------------------------------
(* The environment's inputs: announcements and catalog answers.            *)

\* What ICY.parse makes of a metadata frame: an object with a StreamTitle, or
\* one without.
NoStreamTitle == [StreamUrl |-> <<"u">>]

StreamTitles ==
    { <<"A", " ", "-", " ", "B">>,
      <<"B", " ", "b", "y", " ", "A">>,
      <<"J", "i", "n", "g", "l", "e">> }

MetadataFrames ==
    {[StreamTitle |-> t] : t \in StreamTitles \cup {<<>>}} \cup {NoStreamTitle}

\* The announcements the parser is run on.
Announcements ==
    { <<"A", " ", "b", "y", " ", "B">>,
      <<"A", " ", "-", " ", "B", " ", "b", "y", " ", "C">>,
      <<"G", "h", "o", "s", "t", "b", "u", "s", "t", "e", "r", "s", " ", "-", " ", "R", "a", "y", " ", "P", "a", "r", "k", "e", "r", " ", "J", "r">>,
      <<"A", ":", " ", "B", " ", "-", " ", "C">>,
      <<"A", " ", EnDash, " ", "B">>,
      <<" ", "A", " ", EmDash, " ", "B", " ">>,
      <<"A", " ", "b", "y", " ", "B", " ", "b", "y", " ", "C">>,
      <<"A", " ", "-", " ", "B", " ", "-", " ", "C">>,
      <<":", " ", "B", " ", "b", "y", " ", "C">>,
      <<"B", "o", "o">>,
      <<" ", "B", "o", "o", " ">> }

\* A catalog item of a search answer. The two similarities are what
\* stringSimilarity.compareTwoStrings returns for the cleaned names (1000 is
\* 1.0); the two flags are the outcomes of the includes tests on them.
Candidate(id, a, t, ac, tc) ==
    [id |-> id, artistSimilarity |-> a, titleSimilarity |-> t,
     artistContains |-> ac, titleContains |-> tc]

Exact == Candidate("t1", 1000, 1000, TRUE, TRUE)
Border == Candidate("t2", 750, 750, FALSE, FALSE)
Below == Candidate("t3", 1000, 583, FALSE, FALSE)

SearchAnswers == { <<>>, <<Exact>>, <<Border>>, <<Below>> }

\* Candidates for answers with several tracks: one that ties with Border, one
\* whose names share nothing with the announcement's, one in between, and one
\* whose names only contain the announcement's.
Twin == Candidate("t4", 750, 750, FALSE, FALSE)
Nil == Candidate("t5", 0, 0, FALSE, FALSE)
Low == Candidate("t6", 500, 500, FALSE, FALSE)
Part == Candidate("t7", 100, 200, TRUE, TRUE)

\* Answers of the catalog with up to MaxTracks tracks.
MaxTracks == 4

CatalogAnswers ==
    { <<>>, <<Exact>>, <<Nil>>, <<Border, Twin>>, <<Twin, Border>>, <<Below, Exact>>,
      <<Low, Below>>, <<Border, Part, Low>>, SubSeq(<<Nil, Nil, Nil, Below, Low, Low>>, 1, MaxTracks) }

\* Announcements for the search: one whose title holds '~', one that holds a
\* keyword of the filter.
SearchTitles ==
    { <<"A", " ", "-", " ", "B">>,
      <<"A", " ", "-", " ", "B", "~", "C">>,
      <<"J", "i", "n", "g", "l", "e">> }

----------------------------------------------------------------------------
(* SpotifyService: matching.                                               *)

Max(a, b) == IF a >= b THEN a ELSE b

ContainsBonus == 800
ArtistWeight == 4
TitleWeight == 6
Threshold == 7500

\* SpotifyService.similarityThreshold as the constructor sets it when
\* SIMILARITY_THRESHOLD is not in the environment; no method assigns it.
similarityThreshold == 9000

\* combinedSimilarity of one track, times 10000.
combinedSimilarity(track) ==
    LET artistContains == IF track.artistContains THEN ContainsBonus ELSE 0
        titleContains == IF track.titleContains THEN ContainsBonus ELSE 0
        finalArtistSimilarity == Max(track.artistSimilarity, artistContains)
        finalTitleSimilarity == Max(track.titleSimilarity, titleContains)
    IN  finalArtistSimilarity * ArtistWeight + finalTitleSimilarity * TitleWeight

\* (bestFrom with >= in place of >: the last of equal candidates is kept.)
RECURSIVE bestFromLastWins(_, _, _, _, _)
bestFromLastWins(tracks, i, bestMatch, bestSimilarity, threshold) ==
    IF i > Len(tracks) THEN bestMatch
    ELSE LET c == combinedSimilarity(tracks[i])
         IN  IF c >= bestSimilarity /\ c >= threshold
             THEN bestFromLastWins(tracks, i + 1, [track |-> tracks[i], similarity |-> c],
                                   c, threshold)
             ELSE bestFromLastWins(tracks, i + 1, bestMatch, bestSimilarity, threshold)

RECURSIVE bestFrom(_, _, _, _, _)
bestFrom(tracks, i, bestMatch, bestSimilarity, threshold) ==
    IF i > Len(tracks) THEN bestMatch
    ELSE LET c == combinedSimilarity(tracks[i])
         IN  IF c > bestSimilarity /\ c >= threshold
             THEN bestFrom(tracks, i + 1, [track |-> tracks[i], similarity |-> c], c, threshold)
             ELSE bestFrom(tracks, i + 1, bestMatch, bestSimilarity, threshold)

findBestMatch(tracks) == bestFrom(tracks, 1, None, 0, Threshold)

findBestMatchForLogging(tracks) == bestFrom(tracks, 1, None, 0, 0)

\* Math.round(similarity * 100)
roundPercent(similarity) == (similarity + 50) \div 100

slice3(tracks) == SubSeq(tracks, 1, IF Len(tracks) < 3 THEN Len(tracks) ELSE 3)

Tilde == "~"

\* (queryCount without the two strategies for '~'.)
queryCountThree(title) == 3

\* The search strategies of searchAndAddTrack: 3, and 2 more for a title with '~'.
queryCount(title) == IF includes(title, <<Tilde>>) THEN 5 ELSE 3

skipPatterns ==
    { <<"a","z","u","r","a","c","a","s","t">>,
      <<"h","a","l","l","o","w","e","e","n","r","a","d","i","o">>,
      <<"c","o","m","m","e","r","c","i","a","l","s">>,
      <<"j","i","n","g","l","e">>,
      <<"s","t","a","t","i","o","n"," ","i","d">>,
      <<"r","a","d","i","o"," ","i","d">>,
      <<"l","i","v","e","!">>,
      <<"s","t","r","e","a","m","i","n","g">> }

shouldSkip(artist, title) ==
    \E pattern \in skipPatterns :
        includes(toLowerCase(artist), pattern) \/ includes(toLowerCase(title), pattern)

stationNames == [i \in 1..Len(stationUrls) |-> capitalizeStationName(stationUrls[i])]

\* SpotifyService.playlists after setupPlaylists: the keys bound to a collection.
playlists == {toLowerCase(stationNames[i]) : i \in 1..Len(stationNames)}

----------------------------------------------------------------------------
(* DatabaseService: the relations.                                         *)

Today == "today"

RECURSIVE GCD(_, _)
GCD(a, b) == IF b = 0 THEN a ELSE GCD(b, a % b)

\* A REAL column, kept exact: n / d in lowest terms.
Real(n, d) == LET g == GCD(n, d) IN [n |-> n \div g, d |-> d \div g]

Zero == [n |-> 0, d |-> 1]

lastID(rows) == IF rows = {} THEN 1 ELSE 1 + CHOOSE i \in {r.id : r \in rows} :
                                              \A r \in rows : r.id <= i

StatRows(date, station) == {r \in stats : r.date = date /\ r.station = station}

\* The row INSERT OR REPLACE writes for a (date, station) without a row.
FirstTouchOne(date, station) ==
    [date |-> date, station |-> station, tracks_processed |-> 1,
     tracks_matched |-> 0, tracks_added |-> 0, tracks_duplicated |-> 0,
     tracks_unmatched |-> 0, avg_match_percentage |-> Zero]

FirstTouch(date, station) ==
    [date |-> date, station |-> station, tracks_processed |-> 0,
     tracks_matched |-> 0, tracks_added |-> 0, tracks_duplicated |-> 0,
     tracks_unmatched |-> 0, avg_match_percentage |-> Zero]

\* INSERT OR REPLACE INTO stats: the rows that collide with the new one on
\* UNIQUE(date) or on UNIQUE(date, station) are deleted; the new row carries
\* the values the COALESCE sub-selects find for (date, station), or zeros.
statsUpsert(date, station) ==
    LET old == StatRows(date, station)
        row == IF old = {}
               THEN FirstTouch(date, station)
               ELSE CHOOSE r \in old : TRUE
    IN  {r \in stats : r.date # date} \cup {row}

\* The new average: (avg * (totalMatches - 1) + matchPercentage) / totalMatches.
lastPercentage(avg, totalMatches, matchPercentage) == Real(matchPercentage, 1)

incrementalMean(avg, totalMatches, matchPercentage) ==
    Real(avg.n * (totalMatches - 1) + matchPercentage * avg.d, avg.d * totalMatches)

\* The values updateDailyStats writes, from the row it selected.
statsUpdatesAddedOnly(row, type, matchPercentage) ==
    [row EXCEPT
       !.tracks_processed = @ + 1,
       !.tracks_added = IF type = "matched" THEN @ + 1 ELSE @,
       !.tracks_duplicated = IF type = "duplicate" THEN @ + 1 ELSE @,
       !.tracks_unmatched = IF type = "unmatched" THEN @ + 1 ELSE @]

\* (statsUpdates that counts the outcome and leaves tracks_processed.)
statsUpdatesOutcomeOnly(row, type, matchPercentage) ==
    [row EXCEPT
       !.tracks_matched = IF type = "matched" THEN @ + 1 ELSE @,
       !.tracks_added = IF type = "matched" THEN @ + 1 ELSE @,
       !.tracks_duplicated = IF type = "duplicate" THEN @ + 1 ELSE @,
       !.tracks_unmatched = IF type = "unmatched" THEN @ + 1 ELSE @]

statsUpdates(row, type, matchPercentage) ==
    LET totalMatches == row.tracks_matched + 1
        avg == row.avg_match_percentage
    IN  [row EXCEPT
           !.tracks_processed = @ + 1,
           !.tracks_matched = IF type = "matched" THEN @ + 1 ELSE @,
           !.tracks_added = IF type = "matched" THEN @ + 1 ELSE @,
           !.tracks_duplicated = IF type = "duplicate" THEN @ + 1 ELSE @,
           !.tracks_unmatched = IF type = "unmatched" THEN @ + 1 ELSE @,
           !.avg_match_percentage =
               IF type = "matched" /\ matchPercentage # 0
               THEN incrementalMean(avg, totalMatches, matchPercentage)
               ELSE @]

----------------------------------------------------------------------------
(* RadioMonitor.handleMetadata and SpotifyService.searchAndAddTrack.       *)
(* One action per resumption: each runs the code from one await to the     *)
(* next. A database statement takes effect when its await resumes.         *)

Invocations == DOMAIN inv

InFlight(p) == inv[p].pc # "done"

FramesSeen == LET RECURSIVE Sum(_)
                  Sum(S) == IF S = {} THEN 0
                            ELSE LET f == CHOOSE x \in S : TRUE
                                 IN  Len(frames[f]) + Sum(S \ {f})
              IN  Sum(Feeds)

HasLiveResponse(f) == curResp[f] = "live" \/ oldResp[f].live > 0

\* HalloweenRadioApp.stop has awaited spotifyService.close(): every statement
\* on the database handle is rejected from then on.
StoreClosed == stopPc >= 1

Done(rec, outcome) == [rec EXCEPT !.pc = "done", !.outcome = outcome]

\* updateDailyStats up to its first await (the INSERT OR REPLACE).
updateDailyStats(rec, type, matchPercentage) ==
    [rec EXCEPT !.pc = "statsUpsert", !.statType = type, !.statPercentage = matchPercentage]

\* logUnmatchedTrack up to its await of addUnmatchedTrack (the INSERT); call
\* is the invocation holding the arguments reason and bestMatchForLogging. An
\* announcement that holds one of the skipPatterns returns before anything is
\* stored.
logUnmatchedTrack(rec, reason, searchResults, bestMatchForLogging) ==
    LET call == [rec EXCEPT !.reason = reason,
                            !.similarity = IF bestMatchForLogging = None THEN 0
                                           ELSE bestMatchForLogging.similarity]
        best == IF bestMatchForLogging # None THEN bestMatchForLogging
                ELSE IF Len(searchResults) > 0
                     THEN findBestMatchForLogging(searchResults)
                     ELSE None
    IN  IF shouldSkip(rec.artist, rec.title)
        THEN Done(call, "skipped")
        ELSE [call EXCEPT !.pc = "insertUnmatched",
                          !.searchResultsCount = Len(searchResults),
                          !.bestId = IF best = None THEN NoId ELSE best.track.id,
                          !.similarity = IF best = None THEN 0 ELSE best.similarity]

\* searchAndAddTrack from the end of the query loop to its next await.
afterSearch(rec, tracks) ==
    IF Len(tracks) = 0
    THEN logUnmatchedTrack(rec, "No search results", <<>>, None)
    ELSE LET bestMatch == findBestMatch(tracks)
         IN  IF bestMatch = None
             THEN logUnmatchedTrack(rec, "No suitable match found", slice3(tracks),
                                    findBestMatchForLogging(tracks))
             ELSE [rec EXCEPT !.pc = "isTrackAlreadyAdded",
                              !.bestId = bestMatch.track.id,
                              !.similarity = bestMatch.similarity]

\* The test of handleMetadata for "same track, ignore": on the parsed names.
sameTrackByOriginal(lastTrack, currentTrack) ==
    /\ lastTrack # None
    /\ lastTrack.original = currentTrack.original

sameTrack(lastTrack, currentTrack) ==
    /\ lastTrack # None
    /\ lastTrack.artist = currentTrack.artist
    /\ lastTrack.title = currentTrack.title

\* (StreamTitle with another field of the frame standing in for a missing one.)
anyField(metadata) ==
    IF "StreamTitle" \in DOMAIN metadata THEN metadata.StreamTitle ELSE metadata.StreamUrl

\* parsed.StreamTitle of handleMetadata: undefined (here empty, both are
\* falsy) for a frame that has no such field.
StreamTitle(metadata) ==
    IF "StreamTitle" \in DOMAIN metadata THEN metadata.StreamTitle ELSE <<>>

\* (incompleteTrack without the test: every parse goes on.)
anyTrackGoesOn(currentTrack) == FALSE

\* The test of handleMetadata for a parse that lacks an artist or a title: the
\* handler returns, nothing is stored and nothing is logged.
incompleteTrack(currentTrack) ==
    currentTrack.artist = <<>> \/ currentTrack.title = <<>>

\* The metadata listener: handleMetadata up to its await of searchAndAddTrack,
\* which itself runs up to the await of its first searchTracks.
handleMetadata(f, metadata) ==
    /\ HasLiveResponse(f)
    /\ StreamTitle(metadata) # <<>>
    /\ LET currentTrack == parseStreamTitle(StreamTitle(metadata))
           lastTrack == lastMetadata[f]
       IN  /\ ~incompleteTrack(currentTrack)
           /\ FramesSeen < MaxFrames
           /\ frames' = [frames EXCEPT ![f] =
                  Append(@, [text |-> StreamTitle(metadata),
                             artist |-> currentTrack.artist, title |-> currentTrack.title,
                             original |-> currentTrack.original,
                             monitoring |-> isMonitoring])]
           /\ IF sameTrack(lastTrack, currentTrack)
              THEN UNCHANGED <<lastMetadata, inv>>
              ELSE /\ lastMetadata' = [lastMetadata EXCEPT ![f] = currentTrack]
                   /\ inv' = Append(inv,
                        [feed |-> f, station |-> capitalizeStationName(f),
                         frame |-> Len(frames[f]) + 1,
                         artist |-> currentTrack.artist, title |-> currentTrack.title,
                         original |-> currentTrack.original,
                         pc |-> "search", query |-> 1, tracks |-> <<>>,
                         bestId |-> NoId, similarity |-> 0, checked |-> "none",
                         reason |-> "none", searchResultsCount |-> 0,
                         statType |-> "none", statPercentage |-> 0, statRow |-> None,
                         dbResult |-> NoResult, outcome |-> "none"])
    /\ UNCHANGED connVars
    /\ UNCHANGED setupVars
    /\ UNCHANGED <<matched, unmatched, stats, appended>>

\* The awaited searchTracks of the current strategy answers with one of
\* answers (or throws): the loop breaks on the first answer that holds tracks,
\* which it keeps in tracks, and ends after the last strategy (query 0: the
\* loop is left).
searchTracksAmong(p, answers) ==
    /\ inv[p].pc = "search"
    /\ \E threw \in BOOLEAN, answer \in answers :
         LET rec == inv[p]
             currentTracks == IF threw THEN <<>> ELSE answer
         IN  inv' = [inv EXCEPT ![p] =
                 IF Len(currentTracks) > 0
                 THEN afterSearch([rec EXCEPT !.query = 0, !.tracks = currentTracks],
                                  currentTracks)
                 ELSE IF rec.query < queryCount(rec.title)
                      THEN [rec EXCEPT !.query = @ + 1]
                      ELSE afterSearch([rec EXCEPT !.query = 0], <<>>)]
    /\ UNCHANGED connVars
    /\ UNCHANGED setupVars
    /\ UNCHANGED <<lastMetadata, frames, matched, unmatched, stats, appended>>

searchTracks(p) == searchTracksAmong(p, SearchAnswers)

searchTracksCatalog(p) == searchTracksAmong(p, CatalogAnswers)

\* DatabaseService.isTrackAlreadyAdded: what the SELECT finds, and false when
\* the query fails.
failClosed(spotifyId, failed) ==
    IF failed THEN TRUE ELSE \E r \in matched : r.spotify_id = spotifyId

trackAlreadyAdded(spotifyId, failed) ==
    IF failed THEN FALSE ELSE \E r \in matched : r.spotify_id = spotifyId

\* The awaited isTrackAlreadyAdded answers, its query having failed or not (on
\* a closed store it fails); checked holds how it ended until the invocation
\* resumes the next time.
isTrackAlreadyAdded(p) ==
    /\ inv[p].pc = "isTrackAlreadyAdded"
    /\ \E failed \in IF StoreClosed THEN {TRUE} ELSE BOOLEAN :
       LET rec == [inv[p] EXCEPT !.checked = IF failed THEN "failed" ELSE "answered"]
       IN  inv' = [inv EXCEPT ![p] =
               IF trackAlreadyAdded(rec.bestId, failed)
               THEN updateDailyStats([rec EXCEPT !.outcome = "alreadyAdded"], "duplicate", 0)
               ELSE IF toLowerCase(rec.station) \notin playlists
                    THEN Done(rec, "noPlaylist")
                    ELSE [rec EXCEPT !.pc = "addTracksToPlaylist"]]
    /\ UNCHANGED connVars
    /\ UNCHANGED setupVars
    /\ UNCHANGED <<lastMetadata, frames, matched, unmatched, stats, appended>>

\* The awaited addTracksToPlaylist succeeds: the collection has the track, and
\* addMatchedTrack is called (its INSERT is awaited) ...
addTracksToPlaylistOk(p) ==
    /\ inv[p].pc = "addTracksToPlaylist"
    /\ appended' = appended \cup
           {[call |-> p, playlist |-> toLowerCase(inv[p].station), id |-> inv[p].bestId]}
    /\ inv' = [inv EXCEPT ![p].pc = "insertMatched", ![p].checked = "none"]
    /\ UNCHANGED connVars
    /\ UNCHANGED setupVars
    /\ UNCHANGED <<lastMetadata, frames, matched, unmatched, stats>>

\* ... or throws: the announcement is logged as unmatched.
addTracksToPlaylistFail(p) ==
    /\ inv[p].pc = "addTracksToPlaylist"
    /\ inv' = [inv EXCEPT ![p] =
           logUnmatchedTrack([inv[p] EXCEPT !.checked = "none"], "Spotify API error",
                             <<>>, [track |-> [id |-> inv[p].bestId],
                                    similarity |-> inv[p].similarity])]
    /\ UNCHANGED connVars
    /\ UNCHANGED setupVars
    /\ UNCHANGED <<lastMetadata, frames, matched, unmatched, stats, appended>>

\* matched_tracks.spotify_id is UNIQUE: an INSERT of an id the relation holds
\* fails with SQLITE_CONSTRAINT_UNIQUE.
noConstraint(spotify_id) == FALSE

constraintUnique(spotify_id) == \E r \in matched : r.spotify_id = spotify_id

\* addMatchedTrack: the awaited INSERT INTO matched_tracks resumes, with a row
\* id or with SQLITE_CONSTRAINT_UNIQUE on spotify_id; updateDailyStats follows.
\* On a closed store the INSERT is rejected with another error, which is
\* rethrown to the catch of searchAndAddTrack.
addMatchedTrack(p) ==
    /\ inv[p].pc = "insertMatched"
    /\ LET rec == inv[p]
           percentage == roundPercent(rec.similarity)
       IN  IF StoreClosed
           THEN /\ UNCHANGED matched
                /\ inv' = [inv EXCEPT ![p] = logUnmatchedTrack(rec, "Error", <<>>, None)]
           ELSE
           IF constraintUnique(rec.bestId)
           THEN /\ UNCHANGED matched
                /\ inv' = [inv EXCEPT ![p] =
                       updateDailyStats([rec EXCEPT !.dbResult = NullResult,
                                                    !.outcome = "duplicate"],
                                        "duplicate", 0)]
           ELSE /\ matched' = matched \cup
                       {[id |-> lastID(matched), station |-> rec.station,
                         radio_artist |-> rec.artist, radio_title |-> rec.title,
                         radio_original |-> rec.original, spotify_id |-> rec.bestId,
                         match_percentage |-> percentage,
                         playlist_name |-> toLowerCase(rec.station)]}
                /\ inv' = [inv EXCEPT ![p] =
                       updateDailyStats([rec EXCEPT !.dbResult = lastID(matched),
                                                    !.outcome = "matched"],
                                        "matched", percentage)]
    /\ UNCHANGED connVars
    /\ UNCHANGED setupVars
    /\ UNCHANGED <<lastMetadata, frames, unmatched, stats, appended>>

\* addUnmatchedTrack: the awaited INSERT INTO unmatched_tracks resumes;
\* updateDailyStats follows. On a closed store the INSERT is rejected and the
\* error rethrown: to the catch of searchAndAddTrack, which logs the
\* announcement as unmatched once more, or, from there, to handleMetadata.
addUnmatchedTrack(p) ==
    /\ inv[p].pc = "insertUnmatched"
    /\ LET rec == inv[p]
       IN  IF StoreClosed
           THEN /\ UNCHANGED unmatched
                /\ inv' = [inv EXCEPT ![p] =
                       IF rec.reason = "Error"
                       THEN Done(rec, "threw")
                       ELSE logUnmatchedTrack(rec, "Error", <<>>, None)]
           ELSE
           /\ unmatched' = unmatched \cup
                  {[id |-> lastID(unmatched), station |-> rec.station,
                    radio_artist |-> rec.artist, radio_title |-> rec.title,
                    radio_original |-> rec.original, best_spotify_id |-> rec.bestId,
                    best_match_percentage |-> roundPercent(rec.similarity),
                    reason |-> rec.reason,
                    search_results_count |-> rec.searchResultsCount]}
           /\ inv' = [inv EXCEPT ![p] =
                  updateDailyStats([rec EXCEPT !.dbResult = lastID(unmatched),
                                               !.outcome = "unmatched"],
                                   "unmatched", 0)]
    /\ UNCHANGED connVars
    /\ UNCHANGED setupVars
    /\ UNCHANGED <<lastMetadata, frames, matched, stats, appended>>

\* updateDailyStats: the awaited INSERT OR REPLACE resumes; the SELECT is
\* issued. On a closed store each of its statements is rejected and the catch
\* of updateDailyStats only logs.
statsInsertOrReplace(p) ==
    /\ inv[p].pc = "statsUpsert"
    /\ IF StoreClosed
       THEN /\ UNCHANGED stats
            /\ inv' = [inv EXCEPT ![p].pc = "done", ![p].checked = "none"]
       ELSE /\ stats' = statsUpsert(Today, inv[p].station)
            /\ inv' = [inv EXCEPT ![p].pc = "statsSelect", ![p].checked = "none"]
    /\ UNCHANGED connVars
    /\ UNCHANGED setupVars
    /\ UNCHANGED <<lastMetadata, frames, matched, unmatched, appended>>

\* ... the awaited SELECT resumes: without a row the call gives up, with one
\* the new counters are computed from it and the UPDATE is issued.
statsSelect(p) ==
    /\ inv[p].pc = "statsSelect"
    /\ LET rows == StatRows(Today, inv[p].station)
       IN  inv' = [inv EXCEPT ![p] =
               IF StoreClosed \/ rows = {}
               THEN [@ EXCEPT !.pc = "done"]
               ELSE [@ EXCEPT !.pc = "statsUpdate",
                              !.statRow = CHOOSE r \in rows : TRUE]]
    /\ UNCHANGED connVars
    /\ UNCHANGED setupVars
    /\ UNCHANGED <<lastMetadata, frames, matched, unmatched, stats, appended>>

\* ... the awaited UPDATE resumes; updateDailyStats and its callers return.
statsUpdate(p) ==
    /\ inv[p].pc = "statsUpdate"
    /\ LET rec == inv[p]
           new == statsUpdates(rec.statRow, rec.statType, rec.statPercentage)
       IN  stats' = IF StoreClosed THEN stats
                    ELSE {IF r.date = Today /\ r.station = rec.station THEN new ELSE r :
                             r \in stats}
    /\ inv' = [inv EXCEPT ![p].pc = "done", ![p].statRow = None]
    /\ UNCHANGED connVars
    /\ UNCHANGED setupVars
    /\ UNCHANGED <<lastMetadata, frames, matched, unmatched, appended>>

\* The ids and names of remote collections, and how many calls of
\* updatePlaylistInfo are followed.
PlaylistIds == {"p1", "p2"}
PlaylistNames == {"n1", "n2"}
MaxCalls == 3

\* (createdAt without the COALESCE: the time of the call.)
createdAtNow(station, now) == now

\* COALESCE((SELECT created_at FROM playlists WHERE station = ?), ?)
createdAt(station, now) ==
    IF \E r \in playlistRows : r.station = station
    THEN (CHOOSE r \in playlistRows : r.station = station).created_at
    ELSE now

\* updatePlaylistInfo: the awaited INSERT OR REPLACE INTO playlists resumes;
\* playlists.station is UNIQUE, so the row of the station is replaced. On a
\* closed store the statement is rejected and the catch only logs.
updatePlaylistInfo(station, playlistId, playlistName) ==
    /\ Len(playlistCalls) < MaxCalls
    /\ LET now == Len(playlistCalls) + 1
       IN  /\ playlistCalls' = Append(playlistCalls,
                  [station |-> station, playlist_id |-> playlistId,
                   playlist_name |-> playlistName, at |-> now])
           /\ playlistRows' =
                  IF StoreClosed THEN playlistRows
                  ELSE {r \in playlistRows : r.station # station} \cup
                       {[id |-> lastID(playlistRows), station |-> station,
                         playlist_id |-> playlistId, playlist_name |-> playlistName,
                         created_at |-> createdAt(station, now), updated_at |-> now]}
    /\ UNCHANGED connVars
    /\ UNCHANGED pipeVars

NextPipeline ==
    \/ \E f \in Feeds, metadata \in MetadataFrames : handleMetadata(f, metadata)
    \/ \E p \in Invocations : searchTracks(p)
    \/ \E p \in Invocations : isTrackAlreadyAdded(p)
    \/ \E p \in Invocations : addTracksToPlaylistOk(p)
    \/ \E p \in Invocations : addTracksToPlaylistFail(p)
    \/ \E p \in Invocations : addMatchedTrack(p)
    \/ \E p \in Invocations : addUnmatchedTrack(p)
    \/ \E p \in Invocations : statsInsertOrReplace(p)
    \/ \E p \in Invocations : statsSelect(p)
    \/ \E p \in Invocations : statsUpdate(p)

\* The whole program.
NextAll == NextConn \/ NextPipeline

SpecAll == Init /\ [][NextAll]_vars

\* The program with sources that answer 200, streams that stay up and no
\* shutdown: no connection attempt fails and no response emits error or end.
Next ==
    \/ startMonitoring
    \/ startConnectOk
    \/ NextPipeline

Spec == Init /\ [][Next]_vars

\* A frame that arrives when no invocation is in flight.
handleMetadataIdle(f, metadata) ==
    /\ \A p \in Invocations : ~InFlight(p)
    /\ handleMetadata(f, metadata)

\* The program of Spec with announcements that are processed one after
\* another: a frame arrives when the pipeline of the frame before has completed.
NextSequential ==
    \/ startMonitoring
    \/ startConnectOk
    \/ \E f \in Feeds, metadata \in MetadataFrames : handleMetadataIdle(f, metadata)
    \/ \E p \in Invocations : searchTracks(p)
    \/ \E p \in Invocations : isTrackAlreadyAdded(p)
    \/ \E p \in Invocations : addTracksToPlaylistOk(p)
    \/ \E p \in Invocations : addTracksToPlaylistFail(p)
    \/ \E p \in Invocations : addMatchedTrack(p)
    \/ \E p \in Invocations : addUnmatchedTrack(p)
    \/ \E p \in Invocations : statsInsertOrReplace(p)
    \/ \E p \in Invocations : statsSelect(p)
    \/ \E p \in Invocations : statsUpdate(p)

SpecSequential == Init /\ [][NextSequential]_vars

\* The program of SpecSequential with announcements and catalog answers that
\* exercise the search: titles with '~', answers with several tracks.
NextSearch ==
    \/ startMonitoring
    \/ startConnectOk
    \/ \E f \in Feeds, t \in SearchTitles : handleMetadataIdle(f, [StreamTitle |-> t])
    \/ \E p \in Invocations : searchTracksCatalog(p)
    \/ \E p \in Invocations : isTrackAlreadyAdded(p)
    \/ \E p \in Invocations : addTracksToPlaylistOk(p)
    \/ \E p \in Invocations : addTracksToPlaylistFail(p)
    \/ \E p \in Invocations : addMatchedTrack(p)
    \/ \E p \in Invocations : addUnmatchedTrack(p)
    \/ \E p \in Invocations : statsInsertOrReplace(p)
    \/ \E p \in Invocations : statsSelect(p)
    \/ \E p \in Invocations : statsUpdate(p)

SpecSearch == Init /\ [][NextSearch]_vars

\* The calls of updatePlaylistInfo, for any feed with any collection.
NextPlaylists ==
    \E i \in 1..Len(stationNames), playlistId \in PlaylistIds, playlistName \in PlaylistNames :
        updatePlaylistInfo(stationNames[i], playlistId, playlistName)

SpecPlaylists == Init /\ [][NextPlaylists]_vars

\* HalloweenRadioApp.stop up to the resumption of its first await: the store
\* is closed (isRunning has been true since start called startMonitoring).
appStopClose ==
    /\ startPc > 0
    /\ stopPc = 0
    /\ stopPc' = 1
    /\ UNCHANGED <<isMonitoring, startPc, stopCalled, stations, curResp, oldResp,
                   timers, reconn, doubles>>
    /\ UNCHANGED pipeVars
    /\ UNCHANGED setupVars

\* ... then stopMonitoring runs and stop returns.
appStopMonitoring ==
    /\ stopPc = 1
    /\ stopPc' = 2
    /\ isMonitoring' = FALSE
    /\ stopCalled' = TRUE
    /\ curResp' = [f \in Feeds |-> "none"]
    /\ stations' = [f \in Feeds |-> "absent"]
    /\ lastMetadata' = [f \in Feeds |-> None]
    /\ UNCHANGED <<startPc, oldResp, timers, reconn, doubles>>
    /\ UNCHANGED <<frames, inv, matched, unmatched, stats, appended>>
    /\ UNCHANGED setupVars

\* The program of SpecSequential with a shutdown signal.
NextShutdown ==
    \/ appStopClose
    \/ appStopMonitoring
    \/ NextSequential

SpecShutdown == Init /\ [][NextShutdown]_vars

\* The feeds connect and deliver announcements; handleMetadata parses each and
\* keeps the parsed track of a feed in lastMetadata. No awaited call resumes.
NextParse ==
    \/ startMonitoring
    \/ startConnectOk
    \/ \E f \in Feeds, t \in Announcements : handleMetadata(f, [StreamTitle |-> t])

SpecParse == Init /\ [][NextParse]_vars

----------------------------------------------------------------------------
(* Claims about parseStreamTitle.                                          *)

\* The separators in the order the parser is said to try them.
SeparatorOrder ==
    << <<" ", "-", " ">>, <<" ", EnDash, " ">>, <<" ", EmDash, " ">>, <<":", " ">>, <<" ", "b", "y", " ">> >>

Occurring(text) == {k \in 1..Len(SeparatorOrder) : includes(text, SeparatorOrder[k])}

FirstOccurring(text) ==
    SeparatorOrder[CHOOSE k \in Occurring(text) : \A j \in Occurring(text) : k <= j]

Before(text, sep) == SubSeq(text, 1, indexOf(text, sep) - 1)

After(text, sep) == SubSeq(text, indexOf(text, sep) + Len(sep), Len(text))

\* The track is its original text split at the first occurrence of the first
\* separator of the order that occurs in it.
SplitOnFirstOccurring(track) ==
    LET text == track.original
    IN  IF Occurring(text) = {}
        THEN track.artist = UnknownArtist /\ track.title = text
        ELSE LET sep == FirstOccurring(text)
                 rest == After(text, sep)
             IN  IF sep = <<" ", "b", "y", " ">>
                 THEN /\ track.title = trim(Before(text, sep))
                      /\ track.artist = trim(IF includes(rest, sep)
                                              THEN Before(rest, sep) ELSE rest)
                 ELSE /\ track.artist = trim(Before(text, sep))
                      /\ track.title = trim(rest)

\* C12: parseStreamTitle tries ' - ', en dash, em dash, ': ', ' by ' in that
\* order and splits on the first of them that occurs in the text, trying no
\* other one: 'A by B' gives title 'A' and artist 'B', 'A - B by C' gives artist
\* 'A' and title 'B by C', and ': B by C', whose split on ': ' leaves no artist,
\* is not split on ' by '.
C12_FirstSeparatorWins ==
    \A f \in Feeds :
        lastMetadata[f] # None =>
            LET track == lastMetadata[f]
            IN  /\ SplitOnFirstOccurring(track)
                /\ track.original = <<"A", " ", "b", "y", " ", "B">> =>
                      (track.title = <<"A">> /\ track.artist = <<"B">>)
                /\ track.original = <<"A", " ", "-", " ", "B", " ", "b", "y", " ", "C">> =>
                      (track.artist = <<"A">> /\ track.title = <<"B", " ", "b", "y", " ", "C">>)
                /\ track.original # <<":", " ", "B", " ", "b", "y", " ", "C">>

\* One feed announced 'A - B by C' last and another 'A by B'.
C12_Witness ==
    \E f, g \in Feeds :
        /\ lastMetadata[f] # None /\ lastMetadata[g] # None
        /\ lastMetadata[f].original = <<"A", " ", "-", " ", "B", " ", "b", "y", " ", "C">>
        /\ lastMetadata[g].original = <<"A", " ", "b", "y", " ", "B">>

Ghostbusters == <<"G", "h", "o", "s", "t", "b", "u", "s", "t", "e", "r", "s", " ", "-", " ", "R", "a", "y", " ", "P", "a", "r", "k", "e", "r", " ", "J", "r">>

\* C13 as stated: 'Ghostbusters - Ray Parker Jr' on feed main is normalized to
\* artist 'Ray Parker Jr' and title 'Ghostbusters'.
C13_GhostbustersAsStated ==
    \A f \in Feeds :
        (lastMetadata[f] # None /\ lastMetadata[f].original = Ghostbusters) =>
            /\ lastMetadata[f].artist = <<"R", "a", "y", " ", "P", "a", "r", "k", "e", "r", " ", "J", "r">>
            /\ lastMetadata[f].title = <<"G", "h", "o", "s", "t", "b", "u", "s", "t", "e", "r", "s">>

\* C13 as the parser has it: 'Ghostbusters - Ray Parker Jr' on feed main is
\* normalized to artist 'Ghostbusters' and title 'Ray Parker Jr', the text in
\* front of ' - ' being the artist.
C13_GhostbustersLeftIsArtist ==
    \A f \in Feeds :
        (lastMetadata[f] # None /\ lastMetadata[f].original = Ghostbusters) =>
            /\ lastMetadata[f].artist = <<"G", "h", "o", "s", "t", "b", "u", "s", "t", "e", "r", "s">>
            /\ lastMetadata[f].title = <<"R", "a", "y", " ", "P", "a", "r", "k", "e", "r", " ", "J", "r">>

\* Feed main announced 'Ghostbusters - Ray Parker Jr' last.
C13_Witness ==
    /\ lastMetadata[stationUrls[1]] # None
    /\ lastMetadata[stationUrls[1]].original = Ghostbusters
    /\ \E p \in Invocations : inv[p].original = Ghostbusters

----------------------------------------------------------------------------
(* Claims about the pipelines of the feeds.                                *)

\* C1: the collection-append call is issued at most once per catalog id,
\* across all feeds and all interleavings: no catalog id is appended more than
\* once, all collections counted together.
C1_AppendedOncePerId ==
    \A a, b \in appended : a.id = b.id => a = b

\* C2: in every reachable state the matched relation holds at most one entry
\* per catalog id, whatever the interleaving of the addMatchedTrack calls of
\* different feeds.
C2_OneEntryPerCatalogId ==
    \A r, q \in matched : r.spotify_id = q.spotify_id => r = q

\* Two feeds handed the same catalog id to addMatchedTrack: one got a row id,
\* the other got null.
C2_Witness ==
    \E p, q \in Invocations :
        /\ inv[p].feed # inv[q].feed
        /\ inv[p].bestId = inv[q].bestId
        /\ inv[p].dbResult > NullResult
        /\ inv[q].dbResult = NullResult

\* The calls of addMatchedTrack that have returned.
Returned == {p \in Invocations : inv[p].dbResult # NoResult /\ inv[p].statType # "unmatched"}

\* The counter of a feed's stat row of today, 0 without a row.
Counted(station, column) ==
    IF StatRows(Today, station) = {} THEN 0
    ELSE (CHOOSE r \in StatRows(Today, station) : TRUE)[column]

\* C3: addMatchedTrack returns a new insertion id when the catalog id is not in
\* the matched relation and null when it is; of the calls that carry the same
\* catalog id exactly one gets an id and is counted as matched, every other
\* gets null and is counted as duplicate: once every pipeline has completed,
\* each feed's row counts as matched its calls that got an id and as duplicated
\* at least its calls that got null.
C3_OneMatchedRestDuplicate ==
    /\ \A p \in Returned :
          /\ inv[p].dbResult > NullResult =>
                \A q \in Returned \ {p} :
                    inv[q].bestId = inv[p].bestId => inv[q].dbResult = NullResult
          /\ inv[p].dbResult = NullResult =>
                \E q \in Returned :
                    inv[q].bestId = inv[p].bestId /\ inv[q].dbResult > NullResult
    /\ (\A p \in Invocations : ~InFlight(p)) =>
          \A i \in 1..Len(stationNames) :
              LET own == {p \in Returned : inv[p].station = stationNames[i]}
              IN  /\ Counted(stationNames[i], "tracks_matched") =
                        Cardinality({p \in own : inv[p].dbResult > NullResult})
                  /\ Counted(stationNames[i], "tracks_duplicated") >=
                        Cardinality({p \in own : inv[p].dbResult = NullResult})

\* C4: a feed never has two searchAndAddTrack invocations in flight: the
\* pipeline of a frame starts after the pipeline of the frame before it has
\* completed.
C4_OneInFlightPerFeed ==
    \A p, q \in Invocations :
        (inv[p].feed = inv[q].feed /\ InFlight(p) /\ InFlight(q)) => p = q

\* Frame k of feed f started an invocation.
Invoked(f, k) == \E p \in Invocations : inv[p].feed = f /\ inv[p].frame = k

\* Frames k - 1 and k of feed f carry the same parsed artist and title.
Repeats(f, k) ==
    /\ frames[f][k].artist = frames[f][k - 1].artist
    /\ frames[f][k].title = frames[f][k - 1].title

C10_ThresholdDecides ==
    \A p \in Invocations :
        LET rec == inv[p]
            rejected == rec.reason = "No suitable match found"
            accepted == rec.query = 0 /\ rec.bestId # NoId /\ ~rejected
        IN  /\ accepted => rec.similarity >= Threshold
            /\ rejected => rec.similarity < Threshold
            /\ (rejected /\ ~InFlight(p)) =>
                  \E r \in unmatched :
                      /\ r.id = rec.dbResult
                      /\ r.best_spotify_id = rec.bestId
                      /\ r.best_spotify_id # NoId

\* C19: isTrackAlreadyAdded returns false when the storage query fails, and
\* the pipeline then goes on to the append of the candidate instead of dropping
\* the announcement.
C19_FailsOpen ==
    \A p \in Invocations :
        inv[p].checked = "failed" =>
            /\ inv[p].pc = "addTracksToPlaylist"
            /\ inv[p].outcome = "none"

\* The query of an invocation failed while the ledger holds its catalog id, and
\* the invocation is at the append.
C19_Witness ==
    \E p \in Invocations :
        /\ inv[p].checked = "failed"
        /\ inv[p].pc = "addTracksToPlaylist"
        /\ \E r \in matched : r.spotify_id = inv[p].bestId

\* The five counters of a stat row.
Counters ==
    {"tracks_processed", "tracks_matched", "tracks_added", "tracks_duplicated",
     "tracks_unmatched"}

\* The counters an outcome type increases.
Increased(type) ==
    {"tracks_processed"} \cup
    (IF type = "matched" THEN {"tracks_matched", "tracks_added"}
     ELSE IF type = "duplicate" THEN {"tracks_duplicated"}
     ELSE IF type = "unmatched" THEN {"tracks_unmatched"} ELSE {})

\* Invocation p resumes in this step from the await named by pc.
Resumes(p, pc) == inv[p].pc = pc /\ inv'[p].pc # pc

C15_StatRowsPerFeed ==
    [][\A r \in stats :
        r \in stats' \/
        \E p \in Invocations : inv'[p] # inv[p] /\ inv[p].station = r.station]_vars

RECURSIVE SumMatched(_, _)
\* The sum and the number of the percentages of the matched events of a feed
\* among the first i invocations.
SumMatched(station, i) ==
    IF i = 0 THEN [sum |-> 0, n |-> 0]
    ELSE LET rest == SumMatched(station, i - 1)
         IN  IF inv[i].station = station /\ inv[i].statType = "matched"
             THEN [sum |-> rest.sum + inv[i].statPercentage, n |-> rest.n + 1]
             ELSE rest

C18_FilterKeepsStorage ==
    \A p \in Invocations :
        (inv[p].reason # "none" /\ ~InFlight(p)) =>
            /\ \E r \in unmatched : r.id = inv[p].dbResult /\ r.reason = inv[p].reason
            /\ inv[p].statType = "unmatched"

\* C20: when the collection-append call fails, no matched ledger entry is
\* written for the announcement, one unmatched entry whose reason carries the
\* error is recorded, and the append is not tried again for it.
C20_FailedAppendIsUnmatched ==
    \A p \in Invocations :
        inv[p].reason = "Spotify API error" =>
            /\ inv[p].outcome # "matched" /\ inv[p].statType # "matched"
            /\ \A a \in appended : a.call # p
            /\ inv[p].pc # "addTracksToPlaylist"
            /\ ~InFlight(p) =>
                  /\ \E r \in unmatched :
                        r.id = inv[p].dbResult /\ r.reason = "Spotify API error"
                  /\ Cardinality({r \in unmatched :
                        r.station = inv[p].station /\ r.reason = "Spotify API error"})
                       <= Cardinality({q \in Invocations :
                        inv[q].station = inv[p].station /\
                        inv[q].reason = "Spotify API error"})

\* The invocation has left the query loop with a candidate that findBestMatch
\* accepted, or with candidates that it all rejected.
Accepted(rec) ==
    rec.query = 0 /\ rec.bestId # NoId /\ rec.reason # "No suitable match found"

Rejected(rec) == rec.reason = "No suitable match found"

\* C11: the threshold findBestMatch applies is the configured similarity
\* threshold: a candidate set is accepted exactly when its best combined score
\* reaches SpotifyService.similarityThreshold.
C11_ConfiguredThresholdApplies ==
    \A p \in Invocations :
        /\ Accepted(inv[p]) => inv[p].similarity >= similarityThreshold
        /\ Rejected(inv[p]) => inv[p].similarity < similarityThreshold

----------------------------------------------------------------------------
(* Claims about the connection state machine.                              *)

\* C6: at every moment each feed has at most one pending reconnection timer,
\* also when one connection emits both an error and an end event and when a
\* reconnection attempt fails and reschedules.
C6_OnePendingReconnect == \A f \in Feeds : timers[f] <= 1

\* A reconnection attempt of feed f settles in this step, with success or not.
ReconnectSettles(f) == reconn'[f] = reconn[f] - 1

\* The connection attempt startMonitoring makes for feed f settles in this step.
StartAttemptSettles(f) ==
    /\ startPc \in FeedIdx
    /\ stationUrls[startPc] = f
    /\ startPc' = startPc + 1

\* C7: after stopMonitoring no reconnection timer starts a connection attempt
\* and no feed becomes Connected through a reconnection, a reconnection attempt
\* in flight at the time of the stop included.
C7_NoReconnectAfterStop ==
    [][stopCalled =>
        \A f \in Feeds :
            /\ reconn'[f] <= reconn[f]
            /\ ~(ReconnectSettles(f) /\ stations'[f] = "connected")]_vars

\* C8: every failed connection attempt, the first one made by startMonitoring
\* included, schedules exactly one reconnection of that feed.
C8_FailedAttemptSchedulesOne ==
    [][\A f \in Feeds :
        ((ReconnectSettles(f) \/ StartAttemptSettles(f)) /\ stations'[f] # "connected")
            => timers'[f] = timers[f] + 1]_vars

\* C9: while monitoring is active a disconnect of a feed (stream error, clean
\* end or failed reconnection) is eventually followed by a reconnection attempt,
\* and if from some point on no connection attempt of the feed fails (its source
\* accepts connections), the feed eventually is Connected again.
C9_DisconnectLeadsToReconnect ==
    \A f \in Feeds :
        /\ (isMonitoring /\ stations[f] = "disconnected" /\ reconn[f] = 0)
              ~> (reconn[f] > 0 \/ ~isMonitoring)
        /\ (<>[][~reconnectFail(f)]_vars) =>
              ((isMonitoring /\ stations[f] = "disconnected")
                  ~> (stations[f] = "connected" \/ ~isMonitoring))

\* A disconnected feed whose reconnection attempt is in flight, monitoring active.
C9_Witness ==
    \E f \in Feeds :
        isMonitoring /\ stations[f] = "disconnected" /\ reconn[f] > 0

\* startMonitoring's loop has just left the attempt of feed f without
\* connecting it: the attempt was rejected.
StartAttemptFailed(f) ==
    /\ startPc \in 2..(NumFeeds + 1)
    /\ stationUrls[startPc - 1] = f
    /\ stations[f] = "absent"
    /\ ~stopCalled

\* C21: whatever the other feeds' connection attempts do (fail, or hang until
\* the 30 s timeout rejects them), a feed whose source accepts connections
\* (its startup attempt is not rejected, and from some point on no
\* reconnection attempt of it fails) is, once monitoring has been started,
\* eventually Connected with a live response whose metadata listener is
\* attached, unless monitoring is stopped.
C21_FailingFeedBlocksNoOther ==
    \A g \in Feeds :
        (([]~StartAttemptFailed(g)) /\ (<>[][~reconnectFail(g)]_vars)) =>
            (isMonitoring ~>
                ((stations[g] = "connected" /\ HasLiveResponse(g)) \/ stopCalled))

\* The first feed's startup attempt failed and a later feed is Connected.
C21_Witness ==
    /\ isMonitoring
    /\ startPc > 1
    /\ stations[stationUrls[1]] = "absent"
    /\ \E g \in Feeds : g # stationUrls[1] /\ stations[g] = "connected"

\* A connection attempt of feed f settles in this step.
AttemptSettles(f) == StartAttemptSettles(f) \/ ReconnectSettles(f)

\* ... with a 200 answer: its response is the one the stations entry holds now,
\* the one held before is no longer referenced.
Answered200(f) ==
    /\ AttemptSettles(f)
    /\ curResp'[f] = "live"
    /\ oldResp'[f] = Retire(oldResp[f], curResp[f])

\* C25: a feed is recorded as connected only after its transport returned a
\* 200 response: it becomes connected only in a step in which an attempt is
\* answered with 200, and while it is recorded as connected its entry holds
\* a response that has emitted neither error nor end. An attempt that fails
\* (non-200, request error, timeout) leaves the entry and its response as they
\* are; only the catch of the reconnection callback, through
\* handleStationDisconnect, marks an existing entry as disconnected and
\* schedules a timer.
C25_ConnectedOnlyAfter200 ==
    [][\A f \in Feeds :
        /\ (stations'[f] = "connected" /\ stations[f] # "connected") => Answered200(f)
        /\ stations'[f] = "connected" => curResp'[f] = "live"
        /\ (AttemptSettles(f) /\ ~Answered200(f)) =>
              /\ curResp'[f] = curResp[f]
              /\ oldResp'[f] = oldResp[f]
              /\ \/ stations'[f] = stations[f]
                 \/ /\ ReconnectSettles(f)
                    /\ stations'[f] = "disconnected"
                    /\ timers'[f] = timers[f] + 1]_vars

\* The last feed's startup attempt failed and left it without an entry, the
\* first feed is recorded as connected.
C25_Witness ==
    /\ StartAttemptFailed(stationUrls[NumFeeds])
    /\ stations[stationUrls[1]] = "connected"
    /\ curResp[stationUrls[1]] = "live"

----------------------------------------------------------------------------
(* Claims about shutdown.                                                  *)

\* C22: a pipeline step that is in flight when stop begins finishes with the
\* store open: the store is not closed while an invocation is in flight or
\* before monitoring has stopped, and no ledger or stats write is rejected.
C22_StoreOutlivesInFlightSteps ==
    \A p \in Invocations :
        /\ InFlight(p) => stopPc = 0
        /\ inv[p].reason # "Error"
        /\ inv[p].outcome # "threw"

----------------------------------------------------------------------------
(* Claims about the change detector.                                       *)

\* The announcement handled in this step by the listener of feed f.
Handled(f) == frames'[f][Len(frames'[f])]

\* C23 as stated: handleMetadata drops an announcement that carries a
\* StreamTitle if and only if its parsed artist and title both equal the
\* feed's stored last track: whenever the listener of a feed can receive a
\* frame, an announcement whose parse differs from the stored track is taken.
C23_DropsOnlyRepeats ==
    \A f \in Feeds, t \in Announcements :
        (/\ HasLiveResponse(f)
         /\ FramesSeen < MaxFrames
         /\ ~sameTrack(lastMetadata[f], parseStreamTitle(t)))
            => ENABLED handleMetadata(f, [StreamTitle |-> t])

\* C23, amended: an announcement gets past handleMetadata only with a parsed
\* artist and a parsed title that are both non-empty; such an announcement is
\* dropped if and only if both equal the feed's stored last track, and in
\* every other case the stored last track is replaced by the new parse and
\* the pipeline is invoked for it.
C23_DropsRepeatsAndIncompleteParses ==
    [][\A f \in Feeds :
        frames'[f] # frames[f] =>
            /\ Handled(f).artist # <<>>
            /\ Handled(f).title # <<>>
            /\ IF /\ lastMetadata[f] # None
                  /\ lastMetadata[f].artist = Handled(f).artist
                  /\ lastMetadata[f].title = Handled(f).title
               THEN /\ lastMetadata' = lastMetadata
                    /\ inv' = inv
               ELSE /\ lastMetadata'[f].artist = Handled(f).artist
                    /\ lastMetadata'[f].title = Handled(f).title
                    /\ lastMetadata'[f].original = Handled(f).original
                    /\ Len(inv') = Len(inv) + 1
                    /\ inv'[Len(inv')].feed = f
                    /\ inv'[Len(inv')].artist = Handled(f).artist
                    /\ inv'[Len(inv')].title = Handled(f).title
                    /\ inv'[Len(inv')].pc = "search"]_vars

\* A feed has taken one announcement and dropped its repetition, and its
\* listener can receive a frame whose parse has no artist.
C23_Witness ==
    \E f \in Feeds :
        /\ Len(frames[f]) = 2
        /\ frames[f][1].artist = frames[f][2].artist
        /\ frames[f][1].title = frames[f][2].title
        /\ \E p \in Invocations : inv[p].feed = f
        /\ HasLiveResponse(f)
        /\ \E t \in Announcements : parseStreamTitle(t).artist = <<>>

----------------------------------------------------------------------------
(* Claims about the outcome of an invocation.                              *)

\* C24: every announcement that passes the change detector ends with exactly
\* one recorded outcome, whichever path the pipeline takes: an invocation that
\* has completed has handed exactly one of matched, duplicate or unmatched to
\* updateDailyStats.
C24_OneOutcomePerAnnouncement ==
    \A p \in Invocations :
        ~InFlight(p) => inv[p].statType \in {"matched", "duplicate", "unmatched"}

----------------------------------------------------------------------------
(* Claims about the search and the matcher.                                *)

\* The number of the last strategy for an announcement's title.
LastStrategy(title) == IF \E i \in 1..Len(title) : title[i] = "~" THEN 5 ELSE 3

\* C26: searchAndAddTrack issues the strategy queries strictly in list order
\* (3 strategies, or 5 when the title holds '~'): an invocation starts with
\* the first, and a query that resumes is followed by the next one only when
\* it gave no track and was not the last. No query is issued after the first
\* one that returns a track or after the last one, and the candidate the
\* matcher picks is one of the tracks of the query the loop was left with.
C26_QueriesInOrderUntilResults ==
    [][/\ \A p \in DOMAIN inv' \ DOMAIN inv :
              inv'[p].pc = "search" /\ inv'[p].query = 1 /\ inv'[p].tracks = <<>>
       /\ \A p \in Invocations :
            LET rec == inv[p]
                new == inv'[p]
                last == LastStrategy(rec.title)
            IN  /\ rec.pc = "search" => rec.query \in 1..last
                /\ (rec.pc = "search" /\ new # rec) =>
                      \/ /\ new.pc = "search"
                         /\ rec.query < last
                         /\ new.query = rec.query + 1
                         /\ new.tracks = <<>>
                      \/ /\ new.pc # "search"
                         /\ new.query = 0
                         /\ new.tracks # <<>> \/ rec.query = last
                /\ rec.pc # "search" => (new.pc # "search" /\ new.tracks = rec.tracks)
                /\ new.bestId # NoId =>
                      \E i \in 1..Len(new.tracks) : new.tracks[i].id = new.bestId]_vars

\* An invocation for a title with '~' awaits its fifth query, and an
\* invocation has left the loop on its second query with tracks.
C26_Witness ==
    /\ \E p \in Invocations :
          /\ LastStrategy(inv[p].title) = 5
          /\ inv[p].pc = "search"
          /\ inv[p].query = 5
    /\ \E p \in Invocations : inv[p].query = 0 /\ Len(inv[p].tracks) > 1

\* The invocation has left the query loop without a track: every strategy
\* failed or returned nothing.
NoSearchResults(rec) == rec.query = 0 /\ rec.tracks = <<>>

\* C27: when every strategy fails or returns nothing (a strategy that fails is
\* skipped, the next one is still tried), the outcome is unmatched with reason
\* 'No search results', no best candidate and percentage 0: no append is
\* attempted, and once the invocation has completed the unmatched relation
\* holds its entry with that reason, no candidate and percentage 0.
C27_NoResultsIsUnmatched ==
    \A p \in Invocations :
        NoSearchResults(inv[p]) =>
            /\ inv[p].reason = "No search results"
            /\ inv[p].bestId = NoId
            /\ inv[p].similarity = 0
            /\ inv[p].pc \notin {"isTrackAlreadyAdded", "addTracksToPlaylist", "insertMatched"}
            /\ \A a \in appended : a.call # p
            /\ ~InFlight(p) =>
                  \E r \in unmatched :
                      /\ r.id = inv[p].dbResult
                      /\ r.reason = "No search results"
                      /\ r.best_spotify_id = NoId
                      /\ r.best_match_percentage = 0

\* The unmatched entries written for invocation p.
EntryOf(p) ==
    {r \in unmatched : inv[p].outcome = "unmatched" /\ r.id = inv[p].dbResult}

\* The invocation has left the query loop with tracks none of which reaches
\* the threshold.
NoneReaches(rec) ==
    /\ rec.query = 0
    /\ rec.tracks # <<>>
    /\ \A i \in 1..Len(rec.tracks) : combinedSimilarity(rec.tracks[i]) < Threshold

\* C28: for every non-empty candidate list in which no candidate reaches the
\* threshold, the unmatched entry has reason 'No suitable match found' and a
\* best candidate that is not null and has the highest combined score of all
\* returned candidates, together with that score as rounded percentage.
C28_BestCandidateIsLogged ==
    \A p \in Invocations :
        NoneReaches(inv[p]) =>
            /\ inv[p].reason = "No suitable match found"
            /\ \A r \in EntryOf(p) :
                  /\ r.reason = "No suitable match found"
                  /\ r.best_spotify_id # NoId
                  /\ \E i \in 1..Len(inv[p].tracks) :
                        /\ inv[p].tracks[i].id = r.best_spotify_id
                        /\ \A j \in 1..Len(inv[p].tracks) :
                              combinedSimilarity(inv[p].tracks[j])
                                  <= combinedSimilarity(inv[p].tracks[i])
                        /\ r.best_match_percentage =
                              roundPercent(combinedSimilarity(inv[p].tracks[i]))

\* The combined score as the claim gives it, times 10000: 0.4 * artist +
\* 0.6 * title, each field the greater of its similarity and the 0.8 bonus
\* for containment.
ClaimedScore(track) ==
    LET artist == IF track.artistContains /\ track.artistSimilarity < 800
                  THEN 800 ELSE track.artistSimilarity
        title == IF track.titleContains /\ track.titleSimilarity < 800
                 THEN 800 ELSE track.titleSimilarity
    IN  4 * artist + 6 * title

\* The positions of the candidates at or above the threshold of 0.75.
AtOrAbove(tracks) == {i \in 1..Len(tracks) : ClaimedScore(tracks[i]) >= 7500}

\* The earliest position among those of maximal score.
EarliestBest(tracks) ==
    CHOOSE i \in AtOrAbove(tracks) :
        \A j \in AtOrAbove(tracks) :
            \/ ClaimedScore(tracks[j]) < ClaimedScore(tracks[i])
            \/ ClaimedScore(tracks[j]) = ClaimedScore(tracks[i]) /\ i <= j

\* C29: findBestMatch returns the candidate with the maximal combined score
\* among the candidates at or above the threshold, the earliest in the result
\* list among those of equal maximal score, and null when no candidate
\* reaches the threshold: the invocation goes on with that candidate and
\* that score, or is handed to logUnmatchedTrack as 'No suitable match found'.
C29_EarliestMaximalCandidate ==
    \A p \in Invocations :
        (inv[p].query = 0 /\ inv[p].tracks # <<>>) =>
            IF AtOrAbove(inv[p].tracks) = {}
            THEN inv[p].reason = "No suitable match found"
            ELSE /\ inv[p].bestId = inv[p].tracks[EarliestBest(inv[p].tracks)].id
                 /\ inv[p].similarity =
                        ClaimedScore(inv[p].tracks[EarliestBest(inv[p].tracks)])
                 /\ inv[p].reason # "No suitable match found"

\* An invocation whose answer holds two candidates of equal maximal score
\* goes on with the earlier one, and an invocation goes on with a candidate
\* that reaches the threshold through the containment bonus only.
C29_Witness ==
    /\ \E p \in Invocations :
          /\ inv[p].query = 0
          /\ \E i, j \in AtOrAbove(inv[p].tracks) :
                /\ i < j
                /\ ClaimedScore(inv[p].tracks[i]) = ClaimedScore(inv[p].tracks[j])
                /\ inv[p].tracks[i].id # inv[p].tracks[j].id
                /\ inv[p].bestId = inv[p].tracks[i].id
    /\ \E p \in Invocations : inv[p].bestId = "t7" /\ inv[p].similarity = 8000

\* C30: the candidate count stored in an unmatched entry equals the number of
\* candidates the search returned and the matcher considered for that
\* announcement (0 only when there were none).
C30_CountIsNumberReturned ==
    \A p \in Invocations :
        \A r \in EntryOf(p) : r.search_results_count = Len(inv[p].tracks)

----------------------------------------------------------------------------
(* Claims about what parseStreamTitle keeps of the announcement.           *)

\* C31: for a separator other than ' by ', artist is the text before its
\* first occurrence and title is the whole remainder, later occurrences of
\* the separator kept; for ' by ', title is the text left of the separator
\* and artist is the text to its right; in both cases no part of the
\* announcement text is lost: the two fields are the two sides of the first
\* occurrence, trimmed.
C31_BothSidesKept ==
    \A f \in Feeds :
        (lastMetadata[f] # None /\ Occurring(lastMetadata[f].original) # {}) =>
            LET track == lastMetadata[f]
                text == track.original
                sep == FirstOccurring(text)
            IN  IF sep = <<" ", "b", "y", " ">>
                THEN /\ track.title = trim(Before(text, sep))
                     /\ track.artist = trim(After(text, sep))
                ELSE /\ track.artist = trim(Before(text, sep))
                     /\ track.title = trim(After(text, sep))

\* The announcements that hold none of the separators.
Unseparated == {t \in Announcements : Occurring(trim(t)) = {}}

C33_OriginalIsVerbatim ==
    /\ \A f \in Feeds : \A k \in 1..Len(frames[f]) :
            frames[f][k].original = frames[f][k].text
    /\ \A p \in Invocations :
            inv[p].original = frames[inv[p].feed][inv[p].frame].text
    /\ \A f \in Feeds :
            lastMetadata[f] # None =>
                \E k \in 1..Len(frames[f]) : lastMetadata[f].original = frames[f][k].text

----------------------------------------------------------------------------
(* Claims about frames and calls that change nothing or little.            *)

\* The metadata frames without a StreamTitle: the field is missing or empty.
Untitled == {m \in MetadataFrames : "StreamTitle" \notin DOMAIN m \/ m.StreamTitle = <<>>}

\* C34: a metadata frame without a StreamTitle field changes nothing: the
\* handler returns on it in every state, so the feed's last-seen track, the
\* ledger, the stats and the collections stay as they are and no search is
\* issued.
C34_UntitledFrameIsIgnored ==
    \A f \in Feeds, m \in Untitled : ~ENABLED handleMetadata(f, m)

\* A feed with a live response and a stored last track, an invocation of
\* its pipeline in flight, can receive a further frame.
C34_Witness ==
    \E f \in Feeds :
        /\ HasLiveResponse(f)
        /\ lastMetadata[f] # None
        /\ FramesSeen < MaxFrames
        /\ \E p \in Invocations : inv[p].feed = f /\ InFlight(p)
        /\ ENABLED handleMetadata(f, [StreamTitle |-> <<"A", " ", "-", " ", "B">>])

\* The calls of updatePlaylistInfo made for a station so far.
CallsFor(station) ==
    {k \in 1..Len(playlistCalls) : playlistCalls[k].station = station}

\* C35: updatePlaylistInfo is an idempotent upsert keyed by feed: after any
\* sequence of calls there is exactly one collection record per feed it was
\* called for and none for any other; the record holds the id and name of
\* the latest call, and its created_at is the one set by the first call for
\* that feed.
C35_OneRecordPerFeed ==
    \A i \in 1..Len(stationNames) :
        LET station == stationNames[i]
            rows == {r \in playlistRows : r.station = station}
            calls == CallsFor(station)
        IN  IF calls = {}
            THEN rows = {}
            ELSE LET first == CHOOSE k \in calls : \A j \in calls : k <= j
                     latest == CHOOSE k \in calls : \A j \in calls : j <= k
                 IN  /\ Cardinality(rows) = 1
                     /\ \A r \in rows :
                           /\ r.playlist_id = playlistCalls[latest].playlist_id
                           /\ r.playlist_name = playlistCalls[latest].playlist_name
                           /\ r.created_at = playlistCalls[first].at
                           /\ r.updated_at = playlistCalls[latest].at

\* A feed's record has been replaced by a later call with another id, and
\* another feed has a record too.
C35_Witness ==
    \E i, j \in 1..Len(stationNames) :
        /\ i # j
        /\ CallsFor(stationNames[j]) # {}
        /\ \E k, l \in CallsFor(stationNames[i]) :
              k < l /\ playlistCalls[k].playlist_id # playlistCalls[l].playlist_id

\* What searchAndAddTrack and the store write besides the stat rows.
Written == <<matched, unmatched, appended>>

\* C36: when the best match's catalog id is already in the ledger (and the
\* lookup answers), the append call is not issued, no matched or unmatched
\* entry is written, and the only change is that the feed's duplicated and
\* processed counters each increase by 1: no other counter and no other stat
\* row changes.
C36_AlreadyAddedOnlyCounts ==
    [][\A p \in Invocations :
        LET rec == inv[p]
            dup == rec.outcome = "alreadyAdded"
        IN  /\ (/\ Resumes(p, "isTrackAlreadyAdded")
                /\ inv'[p].checked = "answered"
                /\ \E r \in matched : r.spotify_id = rec.bestId) =>
                  /\ inv'[p].outcome = "alreadyAdded"
                  /\ inv'[p].pc = "statsUpsert" /\ inv'[p].statType = "duplicate"
                  /\ Written' = Written /\ stats' = stats
            /\ (dup /\ Resumes(p, "statsUpsert")) =>
                  /\ Written' = Written
                  /\ \A r \in stats : r \in stats'
                  /\ \A c \in Counters : Counted(rec.station, c)' = Counted(rec.station, c)
            /\ (dup /\ Resumes(p, "statsSelect")) =>
                  /\ inv'[p].pc = "statsUpdate"
                  /\ Written' = Written /\ stats' = stats
            /\ (dup /\ Resumes(p, "statsUpdate")) =>
                  /\ Written' = Written
                  /\ \A r \in stats : r.station # rec.station => r \in stats'
                  /\ \A c \in Counters :
                        Counted(rec.station, c)' =
                            Counted(rec.station, c) +
                                (IF c \in {"tracks_duplicated", "tracks_processed"}
                                 THEN 1 ELSE 0)]_vars

\* C37: in every reachable state, under any interleaving of the statements of
\* updateDailyStats calls, every stat row has tracks_processed =
\* tracks_matched + tracks_duplicated + tracks_unmatched and tracks_matched =
\* tracks_added.
C37_RowCountersAddUp ==
    \A r \in stats :
        /\ r.tracks_processed =
               r.tracks_matched + r.tracks_duplicated + r.tracks_unmatched
        /\ r.tracks_matched = r.tracks_added

\* A call has written its counts into a row that another call of the feed
\* read before and is about to write.
C37_Witness ==
    \E p, q \in Invocations :
        /\ p # q /\ inv[p].station = inv[q].station
        /\ inv[q].statType # "none" /\ ~InFlight(q)
        /\ inv[p].pc = "statsUpdate" /\ inv[p].statRow.tracks_processed = 0
        /\ Counted(inv[q].station, "tracks_processed") = 1

\* The invocations that have called updateDailyStats for a station.
StatCalls(station) ==
    {p \in Invocations : inv[p].station = station /\ inv[p].statType # "none"}

\* C38: updateDailyStats loses no update: after n completed calls for the same
\* (date, feed), in any interleaving of their read and write steps and with
\* no call for another feed, tracks_processed of that row equals n.
C38_NoLostUpdate ==
    \A i \in 1..Len(stationNames) :
        LET station == stationNames[i]
        IN  (\A p \in Invocations : inv[p].station = station /\ ~InFlight(p))
            => Counted(station, "tracks_processed") = Cardinality(StatCalls(station))

\* The responses of a feed that are open, their metadata listener attached:
\* the one the stations entry holds and the ones it held before.
OpenTransports(f) == (IF curResp[f] = "live" THEN 1 ELSE 0) + oldResp[f].live

\* C39: at every moment each feed has at most one open transport delivering
\* metadata frames to handleMetadata: a reconnection never opens a second
\* concurrent connection for a feed that already has a live one.
C39_OneOpenTransport == \A f \in Feeds : OpenTransports(f) <= 1

====
